---- MODULE Spec2Model ----
(***************************************************************************)
(* Model of the voice-emo recording component (RecordingSection, the      *)
(* version with live chunk analysis, weighted averaging and WebM header   *)
(* caching) together with the page callbacks that receive its estimates.  *)
(*                                                                         *)
(* One action is one run-to-completion step of the browser's event loop:  *)
(* a click handler up to its first await, a MediaRecorder event, a timer  *)
(* tick, or the continuation of an await (getUserMedia or fetch).         *)
(*                                                                         *)
(* Audio chunks are opaque byte strings; every delivered chunk is given a *)
(* fresh identifier, and a blob is the sequence of the chunks it was      *)
(* concatenated from.  Scores and weights are exact rationals <<n, d>>.   *)
(*                                                                         *)
(* A MediaRecorder is the record of its state and of the recordingDuration *)
(* its handlers closed over; the recorders that no ref holds any more but  *)
(* that still deliver events are kept in a bag.                            *)
(***************************************************************************)
EXTENDS Integers, Sequences, FiniteSets, Bags, TLC

\* ------------------------------------------------------------------ bounds
\* number of startRecording invocations and recorders alive at the same time
MaxRecorders == 2
\* longest chunk list of a session
MaxChunks == 6
\* number of steps of a behaviour
MaxSteps == 16
\* cap of the session-duration counter (seconds)
MaxDuration == 10
\* most updateWeightedEmotions calls applied in a row to one aggregator
MaxUpdates == 3
\* largest denominator of a stored score or weight that is updated further
\* (the model's integers are 32 bits wide)
MaxDenominator == 400
\* number of storeEmotionData calls made on one SheetsDB
MaxStores == 2
\* the status requests of analyze_prosody are counted up to this number
MaxPolls == 8
\* number of job ids that the batch API hands out
MaxJobs == 3

\* ------------------------------------------------------- program constants
\* processChunk: "only process every third chunk"
EveryNth == 3
\* processChunk: duration passed to updateWeightedEmotions for a live result
ChunkDuration == 9

\* --------------------------------------------------------------- rationals
RECURSIVE GCD(_, _)
GCD(a, b) == IF b = 0 THEN a ELSE GCD(b, a % b)

Abs(n) == IF n < 0 THEN -n ELSE n

\* the rational n/d (d # 0) in lowest terms with a positive denominator
Rat(n, d) ==
    LET g == GCD(Abs(n), Abs(d))
        s == IF d < 0 THEN -1 ELSE 1
    IN  <<(s * n) \div g, (s * d) \div g>>

RInt(n) == <<n, 1>>
\* sums over the least common denominator and products reduced crosswise
\* keep the intermediate integers small
RAdd(x, y) ==
    LET g == GCD(x[2], y[2])
    IN  Rat(x[1] * (y[2] \div g) + y[1] * (x[2] \div g), (x[2] \div g) * y[2])
RSub(x, y) == RAdd(x, <<-y[1], y[2]>>)
RMul(x, y) ==
    LET a == Rat(x[1], y[2])
        b == Rat(y[1], x[2])
    IN  Rat(a[1] * b[1], a[2] * b[2])
RDiv(x, y) == RMul(x, Rat(y[2], y[1]))
RLess(x, y) ==
    LET g == GCD(x[2], y[2])
    IN  x[1] * (y[2] \div g) < y[1] * (x[2] \div g)
RMax(x, y) == IF RLess(x, y) THEN y ELSE x

\* ------------------------------------------------------------- aggregator
\* Index of the entry called name in the map (a sequence in insertion
\* order, as a JavaScript Map iterates), 0 when there is none.
RECURSIVE IndexOf(_, _, _)
IndexOf(map, name, i) ==
    IF i > Len(map) THEN 0
    ELSE IF map[i].name = name THEN i
    ELSE IndexOf(map, name, i + 1)

\* totalDuration = Math.max(recordingDuration, chunkDuration)
TotalDuration(chunkDuration, duration) ==
    RMax(RInt(duration), RInt(chunkDuration))

\* variant: the chunk's share of the elapsed time and its own duration
ChunkWeightOfSum(chunkDuration, duration) ==
    RDiv(RInt(chunkDuration),
         RAdd(RInt(chunkDuration), RMax(RInt(duration), RInt(chunkDuration))))

\* chunkWeight = chunkDuration / Math.max(recordingDuration, chunkDuration)
ChunkWeight(chunkDuration, duration) ==
    RDiv(RInt(chunkDuration), TotalDuration(chunkDuration, duration))

\* variant: a running sum, the stored weight is not scaled down first
MergeOneUnadjusted(map, obs, chunkWeight) ==
    LET i == IndexOf(map, obs.name, 1) IN
    IF i # 0
    THEN [map EXCEPT ![i] =
              [name |-> obs.name,
               totalScore |-> RAdd(map[i].totalScore,
                                   RMul(obs.score, chunkWeight)),
               weight |-> RAdd(map[i].weight, chunkWeight)]]
    ELSE Append(map, [name |-> obs.name,
                      totalScore |-> RMul(obs.score, chunkWeight),
                      weight |-> chunkWeight])

\* One iteration of emotions.forEach: merge one observation into the map.
MergeOne(map, obs, chunkWeight) ==
    LET i == IndexOf(map, obs.name, 1) IN
    IF i # 0
    THEN LET existing == map[i]
             adjustedWeight == RDiv(existing.weight, RAdd(RInt(1), chunkWeight))
             newWeight == RAdd(adjustedWeight, chunkWeight)
             newTotalScore == RAdd(RMul(existing.totalScore, adjustedWeight),
                                   RMul(obs.score, chunkWeight))
         IN  [map EXCEPT ![i] = [name |-> obs.name,
                                 totalScore |-> newTotalScore,
                                 weight |-> newWeight]]
    ELSE Append(map, [name |-> obs.name,
                      totalScore |-> RMul(obs.score, chunkWeight),
                      weight |-> chunkWeight])

RECURSIVE MergeAll(_, _, _)
MergeAll(map, emotions, chunkWeight) ==
    IF emotions = <<>> THEN map
    ELSE MergeAll(MergeOne(map, Head(emotions), chunkWeight),
                  Tail(emotions), chunkWeight)

\* variant: the map is rebuilt from the names of this response only
UpdatedMapOfObserved(map, emotions, chunkDuration, duration) ==
    SelectSeq(MergeAll(map, emotions, ChunkWeight(chunkDuration, duration)),
              LAMBDA e : \E k \in 1..Len(emotions) : emotions[k].name = e.name)

\* The map after updateWeightedEmotions(emotions, chunkDuration), run in a
\* closure whose recordingDuration is duration.
UpdatedMap(map, emotions, chunkDuration, duration) ==
    MergeAll(map, emotions, ChunkWeight(chunkDuration, duration))

\* variant: the stored total is shown, not divided by the weight
DisplayScoreTotal(e) == e.totalScore

\* score: weight > 0 ? totalScore / weight : 0
DisplayScore(e) ==
    IF RLess(RInt(0), e.weight) THEN RDiv(e.totalScore, e.weight) ELSE RInt(0)

\* Array.prototype.sort((a, b) => b.score - a.score): stable, descending.
RECURSIVE InsertDesc(_, _)
InsertDesc(sorted, x) ==
    IF sorted = <<>> THEN <<x>>
    ELSE IF RLess(Head(sorted).score, x.score) THEN <<x>> \o sorted
    ELSE <<Head(sorted)>> \o InsertDesc(Tail(sorted), x)

RECURSIVE SortDesc(_)
SortDesc(list) ==
    IF list = <<>> THEN <<>>
    ELSE InsertDesc(SortDesc(SubSeq(list, 1, Len(list) - 1)), list[Len(list)])

\* variant: the entries in map order, the sort left out
UnsortedResults(map) ==
    [i \in 1..Len(map) |->
        [name |-> map[i].name, score |-> DisplayScore(map[i])]]

\* weightedResults: name and display score of every entry, sorted
WeightedResults(map) ==
    SortDesc([i \in 1..Len(map) |->
                 [name |-> map[i].name, score |-> DisplayScore(map[i])]])

\* ------------------------------------------------------------------- state
VARIABLES
    isRecording,            \* useState(false)
    isProcessing,           \* useState(false)
    recordingDuration,      \* useState(0)
    mediaRecorderRef,       \* the recorder held by the ref, or Null
    chunksRef,              \* the chunk list
    durationIntervalRef,    \* the interval held by the ref: "null", "running", "cleared"
    webmHeaderRef,          \* the stored header chunk, 0 = null
    weightedEmotionsRef,    \* the aggregator map, in insertion order
    pending,                \* startRecording invocations awaiting getUserMedia
    orphans,                \* recorders still alive that the ref no longer holds
    leakedTimers,           \* running intervals that the ref no longer holds
    strayStream,            \* a stream acquired by a failed start is still open
    nextChunk,              \* number of non-empty chunks delivered so far
    steps,                  \* number of steps taken so far
    inflight,               \* live analysis calls awaiting their response
    finalCall,              \* final analysis calls awaiting their response
    published,              \* arguments of the last onEmotionsUpdate call
    toast,                  \* the last toast shown
    resultSink,             \* what has been handed to the result sink
    opusSupported,          \* MediaRecorder.isTypeSupported('audio/webm;codecs=opus')
    settled,                \* history: how the fetch that settled last ended (late: not recording)
    delivered,              \* history: non-empty chunks delivered this session
    liveLog,                \* history: live request blobs of this session
    finalLog,               \* history: final request blobs of this session
    observed,               \* history: the observations the aggregator on its own
                            \* merged, each with the chunk duration of its update
    sheets,                 \* SheetsDB: this.sheets, "null" or "client"
    sheetValues,            \* the rows of the spreadsheet, the header row first
    storeCall,              \* SheetsDB.storeEmotionData: position and locals of the call
    storeReturned,          \* history: what the calls of storeEmotionData returned
    apiKey,                 \* process.env.HUME_API_KEY is set
    prosodyCall,            \* analyze_prosody: position and locals of the call
    prosodyReturned         \* what analyze_prosody returned, "none" before it has

vars == <<isRecording, isProcessing, recordingDuration, mediaRecorderRef,
          chunksRef, durationIntervalRef, webmHeaderRef, weightedEmotionsRef,
          pending, orphans, leakedTimers, strayStream, nextChunk, steps,
          inflight, finalCall, published, toast, resultSink, opusSupported, settled,
          delivered, liveLog, finalLog, observed, sheets, sheetValues,
          storeCall, storeReturned, apiKey, prosodyCall, prosodyReturned>>

\* the state of the recording component
componentVars ==
    <<isRecording, isProcessing, recordingDuration, mediaRecorderRef,
      chunksRef, durationIntervalRef, webmHeaderRef, weightedEmotionsRef,
      pending, orphans, leakedTimers, strayStream, nextChunk, steps,
      inflight, finalCall, published, toast, resultSink, opusSupported, settled,
      delivered, liveLog, finalLog>>
\* the state of SheetsDB and of its spreadsheet
sheetVars == <<sheets, sheetValues, storeCall, storeReturned>>
\* the state of analyze_prosody
prosodyVars == <<apiKey, prosodyCall, prosodyReturned>>

\* new SheetsDB() on an empty spreadsheet, no call of storeEmotionData made
SheetsIdle ==
    /\ sheets = "null"
    /\ sheetValues = <<>>
    /\ storeCall = [pc |-> "idle"]
    /\ storeReturned = <<>>

\* analyze_prosody not called
ProsodyIdle ==
    /\ apiKey = TRUE
    /\ prosodyCall = [pc |-> "idle"]
    /\ prosodyReturned = "none"

Null == [state |-> "null", duration |-> 0]

\* new MediaRecorder(...) and recorder.start(3000), in the closure of a
\* render whose recordingDuration is duration
NewRecorder(duration) == [state |-> "recording", duration |-> duration]

\* a recorder that may still fire dataavailable
IsAlive(rec) == rec.state \in {"recording", "flushing"}

\* startRecording invocations and recorders alive
LiveCount ==
    BagCardinality(pending) + BagCardinality(orphans)
        + (IF IsAlive(mediaRecorderRef) THEN 1 ELSE 0)

\* handleRecordingStart: the page shows no estimate
NoEstimate == [shown |-> FALSE, emotions |-> <<>>, isFinal |-> FALSE]

\* handleEmotionsUpdate(emotions, isFinal), as called by the component
Estimate(emotions, isFinal) ==
    [shown |-> TRUE, emotions |-> emotions, isFinal |-> isFinal]

\* ------------------------------------------------- the classifier's answers
Joy == "joy"
Anger == "anger"

Obs(name, n, d) == [name |-> name, score |-> Rat(n, d)]

\* emotion lists that 2xx responses to live chunk requests carry
LiveLists ==
    { <<Obs(Joy, 3, 4), Obs(Anger, 1, 4)>>,
      <<Obs(Anger, 1, 2)>> }

\* emotion lists that 2xx responses to the final request carry (not sorted)
FinalLists ==
    { <<Obs(Anger, 1, 8), Obs(Joy, 5, 8)>> }

\* responses to a live chunk request: non-2xx or network error, 2xx with no
\* (or an empty) emotions list, 2xx with emotions
LiveResponses ==
    { [ok |-> FALSE, emotions |-> <<>>], [ok |-> TRUE, emotions |-> <<>>] }
    \cup { [ok |-> TRUE, emotions |-> l] : l \in LiveLists }

\* responses to the final request; timing says whether the 2xx body carries
\* the timing object
FinalResponses ==
    { [ok |-> FALSE, emotions |-> <<>>, timing |-> FALSE] }
    \cup { [ok |-> TRUE, emotions |-> l, timing |-> t] :
             l \in FinalLists, t \in BOOLEAN }

ComponentInit ==
    /\ isRecording = FALSE
    /\ isProcessing = FALSE
    /\ recordingDuration = 0
    /\ mediaRecorderRef = Null
    /\ chunksRef = <<>>
    /\ durationIntervalRef = "null"
    /\ webmHeaderRef = 0
    /\ weightedEmotionsRef = <<>>
    /\ pending = EmptyBag
    /\ orphans = EmptyBag
    /\ leakedTimers = 0
    /\ strayStream = FALSE
    /\ nextChunk = 0
    /\ steps = 0
    /\ inflight = {}
    /\ finalCall = {}
    /\ published = NoEstimate
    /\ toast = "none"
    /\ resultSink = <<>>
    /\ opusSupported \in BOOLEAN
    /\ settled = "none"
    /\ delivered = <<>>
    /\ liveLog = <<>>
    /\ finalLog = <<>>

Init == ComponentInit /\ observed = {} /\ SheetsIdle /\ ProsodyIdle

\* ------------------------------------------------------ pieces of handlers
\* variant: the chunk is put in front of the list (unshift for push)
PushChunkInFront(chunks, chunk) == <<chunk>> \o chunks

\* ondataavailable: chunksRef.current.push(e.data)
PushChunk(chunks, chunk) == Append(chunks, chunk)

\* variant: the header is taken from the second chunk of the list
IsSecondChunk(len) == len = 2

\* processChunk: chunksRef.current.length === 1 (store the header, return)
IsFirstChunk(len) == len = 1

\* variant: the test inverted, every third chunk is the one skipped
IsSkippedEveryThird(len) == len % EveryNth = 0

\* variant: every third payload chunk, the header not counted
IsSkippedByPayloadIndex(len) == (len - 1) % EveryNth # 0

\* processChunk: chunksRef.current.length % 3 !== 0 (skip the chunk)
IsSkipped(len) == len % EveryNth # 0

\* processChunk: new Blob([webmHeaderRef.current!, chunk])
ChunkAudio(header, chunk) == <<header, chunk>>

\* processCompleteAudio: new Blob([webmHeaderRef.current!, ...chunks.slice(1)])
CompleteAudio(header, chunks) == <<header>> \o SubSeq(chunks, 2, Len(chunks))

\* stopRecording: mediaRecorderRef.current && state !== 'inactive'
CanStop(ref) == ref # Null /\ ref.state = "recording"

\* stopRecording: chunksRef.current.length > 0
HasChunks(chunks) == Len(chunks) > 0

\* processChunk: response.ok && data.emotions && data.emotions.length > 0
IsMerged(resp) == resp.ok /\ Len(resp.emotions) > 0

\* variant: a result that arrives when the recording has stopped is dropped
MapWhileRecording(map, resp, duration) ==
    IF IsMerged(resp) /\ isRecording
    THEN UpdatedMap(map, resp.emotions, ChunkDuration, duration)
    ELSE map

\* variant: the catch of processChunk clears the aggregator
MapClearedOnFailure(map, resp, duration) ==
    IF IsMerged(resp)
    THEN UpdatedMap(map, resp.emotions, ChunkDuration, duration)
    ELSE IF resp.ok THEN map ELSE <<>>

\* variant: the update writes back a map read before the other calls' writes
\* (the map as it was when the session started), their entries are lost
MapOfResponseAlone(map, resp, duration) ==
    IF IsMerged(resp)
    THEN UpdatedMap(<<>>, resp.emotions, ChunkDuration, duration)
    ELSE map

\* processChunk: the aggregator map after the response of a live call
MapAfterLive(map, resp, duration) ==
    IF IsMerged(resp)
    THEN UpdatedMap(map, resp.emotions, ChunkDuration, duration)
    ELSE map

\* variant: every 2xx response publishes the estimate of the map, also the
\* one that carries no emotions
PublishedWhenOk(pub, map, resp, duration) ==
    IF resp.ok
    THEN Estimate(WeightedResults(MapAfterLive(map, resp, duration)), FALSE)
    ELSE pub

\* processChunk / updateWeightedEmotions: the estimate after the response of
\* a live call (weightedResults is published when it is not empty)
PublishedAfterLive(pub, map, resp, duration) ==
    LET results == WeightedResults(MapAfterLive(map, resp, duration)) IN
    IF IsMerged(resp) /\ Len(results) > 0
    THEN Estimate(results, FALSE)
    ELSE pub

\* variant: the body is published before response.ok is tested
PublishedBeforeOkTest(pub, resp) == Estimate(resp.emotions, TRUE)

\* variant: the final list is sorted before it is published
PublishedSortedFinal(pub, resp) ==
    IF resp.ok THEN Estimate(SortDesc(resp.emotions), TRUE) ELSE pub

\* processCompleteAudio: the estimate after the response of the final call
PublishedAfterFinal(pub, resp) ==
    IF resp.ok THEN Estimate(resp.emotions, TRUE) ELSE pub

\* processCompleteAudio: the toast after the response of the final call; a
\* 2xx body without timing makes data.timing.total throw into the catch
ToastAfterFinal(resp) ==
    IF resp.ok /\ resp.timing THEN "Analysis Complete" ELSE "Processing error"

\* ----------------------------------------------------------------- actions
\* The button: onClick = isRecording ? stopRecording : startRecording,
\* disabled = isProcessing.
\* variant: onClick = startRecording whatever isRecording is
StartShown == ~isProcessing

StartEnabled == ~isRecording /\ ~isProcessing
StopEnabled == isRecording /\ ~isProcessing

One(x) == SetToBag({x})

\* groups of variables, for UNCHANGED
reactVars == <<isRecording, isProcessing, recordingDuration>>
recorderVars == <<mediaRecorderRef, orphans>>
timerVars == <<durationIntervalRef, leakedTimers>>
chunkVars == <<chunksRef, webmHeaderRef, nextChunk, delivered>>
callVars == <<inflight, finalCall, liveLog, finalLog>>
outputVars == <<published, toast, resultSink, settled>>

\* startRecording up to "await getUserMedia"
StartClick ==
    /\ StartEnabled
    /\ LiveCount < MaxRecorders
    /\ published' = NoEstimate
    /\ weightedEmotionsRef' = <<>>
    /\ webmHeaderRef' = 0
    /\ pending' = pending (+) One(recordingDuration)
    /\ UNCHANGED <<reactVars, recorderVars, timerVars, callVars, chunksRef,
                   nextChunk, delivered, toast, resultSink, settled,
                   strayStream, opusSupported>>

\* variant: the catch of startRecording only logs the error
StartDeniedSilently(d) ==
    /\ BagIn(d, pending)
    /\ pending' = pending (-) One(d)
    /\ UNCHANGED <<reactVars, recorderVars, timerVars, chunkVars, callVars,
                   outputVars, weightedEmotionsRef, strayStream, opusSupported>>

\* getUserMedia rejects: the catch of startRecording
StartDenied(d) ==
    /\ BagIn(d, pending)
    /\ pending' = pending (-) One(d)
    /\ toast' = "Error starting recording"
    /\ UNCHANGED <<reactVars, recorderVars, timerVars, chunkVars, callVars,
                   weightedEmotionsRef, published, resultSink, settled,
                   strayStream, opusSupported>>

\* getUserMedia resolves, the codec is not supported: throw into the catch;
\* the stream that was acquired stays open
StartUnsupported(d) ==
    /\ BagIn(d, pending)
    /\ ~opusSupported
    /\ pending' = pending (-) One(d)
    /\ strayStream' = TRUE
    /\ toast' = "Error starting recording"
    /\ UNCHANGED <<reactVars, recorderVars, timerVars, chunkVars, callVars,
                   weightedEmotionsRef, published, resultSink, settled,
                   opusSupported>>

\* getUserMedia resolves: the rest of startRecording.  The refs are
\* overwritten: a recorder or an interval they held is no longer reachable.
StartResolved(d) ==
    /\ BagIn(d, pending)
    /\ opusSupported
    /\ pending' = pending (-) One(d)
    /\ recordingDuration' = 0
    /\ chunksRef' = <<>>
    /\ orphans' = IF IsAlive(mediaRecorderRef)
                  THEN orphans (+) One(mediaRecorderRef) ELSE orphans
    /\ mediaRecorderRef' = NewRecorder(d)
    /\ isRecording' = TRUE
    /\ leakedTimers' = IF durationIntervalRef = "running"
                       THEN leakedTimers + 1 ELSE leakedTimers
    /\ durationIntervalRef' = "running"
    /\ toast' = "Recording started"
    /\ delivered' = <<>>
    /\ liveLog' = <<>>
    /\ finalLog' = <<>>
    /\ UNCHANGED <<isProcessing, webmHeaderRef, nextChunk, weightedEmotionsRef,
                   inflight, finalCall, published, resultSink, settled,
                   strayStream, opusSupported>>

\* a setInterval callback: setRecordingDuration(prev => prev + 1)
Tick ==
    /\ durationIntervalRef = "running" \/ leakedTimers > 0
    /\ recordingDuration < MaxDuration
    /\ recordingDuration' = recordingDuration + 1
    /\ UNCHANGED <<isRecording, isProcessing, recorderVars, timerVars, chunkVars,
                   callVars, outputVars, weightedEmotionsRef, pending,
                   strayStream, opusSupported>>

\* A recorder after one of its dataavailable events: the event that stop()
\* queues is its last, and nothing reads the closure of a recorder that fires
\* no more events.
AfterEvent(rec) ==
    IF rec.state = "flushing" THEN [state |-> "inactive", duration |-> 0] ELSE rec

\* e.data of a dataavailable event with size > 0: bytes not delivered before
FreshChunk == nextChunk + 1

\* ondataavailable: what the handler of a recorder with closure duration d
\* does with e.data; size > 0 is the push, then processChunk up to its first
\* await
OnDataAvailable(d, nonEmpty) ==
    IF nonEmpty
    THEN /\ Len(chunksRef) < MaxChunks
         /\ LET chunk == FreshChunk
                chunks == PushChunk(chunksRef, chunk)
            IN  /\ chunksRef' = chunks
                /\ nextChunk' = chunk
                /\ delivered' = Append(delivered, chunk)
                /\ IF IsFirstChunk(Len(chunks))
                   THEN /\ webmHeaderRef' = chunk
                        /\ UNCHANGED <<inflight, liveLog>>
                   ELSE IF IsSkipped(Len(chunks))
                   THEN UNCHANGED <<webmHeaderRef, inflight, liveLog>>
                   ELSE /\ inflight' = inflight \cup
                               {[blob |-> ChunkAudio(webmHeaderRef, chunk),
                                 duration |-> d]}
                        /\ liveLog' = Append(liveLog,
                                             ChunkAudio(webmHeaderRef, chunk))
                        /\ UNCHANGED webmHeaderRef
    ELSE UNCHANGED <<chunkVars, inflight, liveLog>>

\* variant: the handler takes the next chunk only when no live call is pending
DataAvailableWhenQuiet(nonEmpty) ==
    /\ inflight = {}
    /\ IsAlive(mediaRecorderRef)
    /\ OnDataAvailable(mediaRecorderRef.duration, nonEmpty)
    /\ mediaRecorderRef' = AfterEvent(mediaRecorderRef)
    /\ UNCHANGED <<reactVars, timerVars, outputVars, orphans, finalCall,
                   finalLog, weightedEmotionsRef, pending, strayStream,
                   opusSupported>>

\* a dataavailable event of the recorder that the ref holds
DataAvailable(nonEmpty) ==
    /\ IsAlive(mediaRecorderRef)
    /\ OnDataAvailable(mediaRecorderRef.duration, nonEmpty)
    /\ mediaRecorderRef' = AfterEvent(mediaRecorderRef)
    /\ UNCHANGED <<reactVars, timerVars, outputVars, orphans, finalCall,
                   finalLog, weightedEmotionsRef, pending, strayStream,
                   opusSupported>>

\* a dataavailable event of a recorder that no ref holds
OrphanDataAvailable(rec, nonEmpty) ==
    /\ BagIn(rec, orphans)
    /\ OnDataAvailable(rec.duration, nonEmpty)
    /\ orphans' = IF rec.state = "flushing"
                  THEN orphans (-) One(rec) ELSE orphans
    /\ UNCHANGED <<reactVars, timerVars, outputVars, mediaRecorderRef,
                   finalCall, finalLog, weightedEmotionsRef, pending,
                   strayStream, opusSupported>>

\* the fetch of a live call settles: the rest of processChunk
LiveResponse(call, resp) ==
    /\ call \in inflight
    /\ inflight' = inflight \ {call}
    /\ weightedEmotionsRef' =
           MapAfterLive(weightedEmotionsRef, resp, call.duration)
    /\ published' = PublishedAfterLive(published, weightedEmotionsRef, resp,
                                       call.duration)
    /\ settled' = IF ~resp.ok THEN "liveFail"
                  ELSE IF ~IsMerged(resp) THEN "liveEmpty"
                  ELSE IF isRecording THEN "liveOk" ELSE "liveOkLate"
    /\ UNCHANGED <<reactVars, recorderVars, timerVars, chunkVars, finalCall,
                   liveLog, finalLog, toast, resultSink, pending, strayStream,
                   opusSupported>>

\* stopRecording past its test of the recorder, with processCompleteAudio up
\* to its first await
StopEffects ==
    /\ mediaRecorderRef' = [mediaRecorderRef EXCEPT !.state = "flushing"]
    /\ isRecording' = FALSE
    /\ durationIntervalRef' =
           IF durationIntervalRef = "null" THEN "null" ELSE "cleared"
    /\ IF HasChunks(chunksRef)
       THEN /\ isProcessing' = TRUE
            /\ finalCall' = finalCall \cup
                   {[blob |-> CompleteAudio(webmHeaderRef, chunksRef)]}
            /\ finalLog' = Append(finalLog,
                                  CompleteAudio(webmHeaderRef, chunksRef))
       ELSE UNCHANGED <<isProcessing, finalCall, finalLog>>
    /\ UNCHANGED <<recordingDuration, orphans, leakedTimers, chunkVars, inflight,
                   liveLog, outputVars, weightedEmotionsRef, pending,
                   strayStream, opusSupported>>

\* variant: the button calls stopRecording whenever it is not disabled, and
\* stopRecording does not test the state of the recorder
StopClickUnguarded ==
    /\ ~isProcessing
    /\ mediaRecorderRef # Null
    /\ StopEffects

\* a click on the button while it shows "Stop Recording": stopRecording
StopClick ==
    /\ StopEnabled
    /\ IF CanStop(mediaRecorderRef)
       THEN StopEffects
       ELSE UNCHANGED <<reactVars, recorderVars, timerVars, chunkVars, callVars,
                        outputVars, weightedEmotionsRef, pending, strayStream,
                        opusSupported>>

\* variant: setIsProcessing(false) at the end of the try, not in a finally
FinalResponseNoFinally(call, resp) ==
    /\ call \in finalCall
    /\ finalCall' = finalCall \ {call}
    /\ published' = PublishedAfterFinal(published, resp)
    /\ toast' = ToastAfterFinal(resp)
    /\ isProcessing' = (ToastAfterFinal(resp) = "Processing error")
    /\ settled' = IF resp.ok THEN "finalOk" ELSE "finalFail"
    /\ UNCHANGED <<isRecording, recordingDuration, recorderVars, timerVars,
                   chunkVars, inflight, liveLog, finalLog, resultSink,
                   weightedEmotionsRef, pending, strayStream, opusSupported>>

\* the fetch of the final call settles: the rest of processCompleteAudio
FinalResponse(call, resp) ==
    /\ call \in finalCall
    /\ finalCall' = finalCall \ {call}
    /\ published' = PublishedAfterFinal(published, resp)
    /\ toast' = ToastAfterFinal(resp)
    /\ isProcessing' = FALSE
    /\ settled' = IF resp.ok THEN "finalOk" ELSE "finalFail"
    /\ UNCHANGED <<isRecording, recordingDuration, recorderVars, timerVars,
                   chunkVars, inflight, liveLog, finalLog, resultSink,
                   weightedEmotionsRef, pending, strayStream, opusSupported>>

\* what the steps of the component leave alone: the state of the programs
\* that are modelled on their own
otherVars == <<observed, sheetVars, prosodyVars>>

\* one more step of a behaviour of the component of at most MaxSteps steps
Counted == steps < MaxSteps /\ steps' = steps + 1 /\ UNCHANGED otherVars

Next ==
    \/ Counted /\ StartClick
    \/ Counted /\ \E d \in BagToSet(pending) : StartDenied(d)
    \/ Counted /\ \E d \in BagToSet(pending) : StartUnsupported(d)
    \/ Counted /\ \E d \in BagToSet(pending) : StartResolved(d)
    \/ Counted /\ Tick
    \/ Counted /\ \E nonEmpty \in BOOLEAN : DataAvailable(nonEmpty)
    \/ Counted /\ \E rec \in BagToSet(orphans), nonEmpty \in BOOLEAN :
                      OrphanDataAvailable(rec, nonEmpty)
    \/ Counted /\ \E call \in inflight, resp \in LiveResponses :
                      LiveResponse(call, resp)
    \/ Counted /\ StopClick
    \/ Counted /\ \E call \in finalCall, resp \in FinalResponses :
                      FinalResponse(call, resp)

Spec == Init /\ [][Next]_vars

\* ------------------------------------------------------------------ claims
\* the steps of the model, told by what they change
IsStartClick == BagCardinality(pending') > BagCardinality(pending)
IsLiveSettled == inflight' \subseteq inflight /\ inflight' # inflight
IsFinalSettled == finalCall' \subseteq finalCall /\ finalCall' # finalCall
IsStop == isRecording /\ ~isRecording'

\* the chunks submitted for live analysis in this session
Submitted == {liveLog[i][2] : i \in 1..Len(liveLog)}

\* C1: once a final estimate (isFinal = true) is published, every estimate
\* published until the next start() is that final estimate: no step other
\* than a start changes the published estimate.
C1_FinalEstimateStays ==
    [][(published.shown /\ published.isFinal /\ ~IsStartClick)
           => published' = published]_vars

\* C2: the blob of the final request is the header followed by every payload
\* chunk the session's recorder delivers, the chunk delivered as a
\* consequence of stop() included: once the recorder has fired its last
\* event, the blob is the sequence of all chunks delivered in the session.
C2_FinalBlobComplete ==
    (Len(finalLog) = 1 /\ mediaRecorderRef.state = "inactive"
         /\ orphans = EmptyBag)
        => finalLog[1] = delivered

\* C3: every final request's blob begins with chunk 0 of the current
\* session, the first non-empty chunk delivered since the session started.
C3_FinalBlobBeginsWithHeader ==
    \A i \in 1..Len(finalLog) :
        /\ Len(delivered) >= 1
        /\ Head(finalLog[i]) = Head(delivered)

\* C3 witness: a final request was issued in a session in which chunks were
\* skipped and a chunk was submitted for live analysis.
C3_Witness ==
    /\ Len(finalLog) = 1
    /\ Len(finalLog[1]) >= 4
    /\ Len(liveLog) = 1

\* C4: the chunk list is the sequence of the non-empty chunks delivered in
\* the session, in delivery order.
C4_ListIsDelivered == chunksRef = delivered

\* C4 witness: chunks were appended after a live call was dispatched and
\* while it is pending.
C4_Witness ==
    /\ isRecording
    /\ Len(chunksRef) >= 5
    /\ Cardinality(inflight) >= 1

\* C5 as claimed: payload chunk k (list position k + 1) is submitted exactly
\* when k is a multiple of 3.
C5_SubmittedByPayloadIndex ==
    Submitted = {delivered[i] : i \in {j \in 2..Len(delivered) :
                                           (j - 1) % EveryNth = 0}}

\* C5 amended: the chunk at position i of the list, the header counted as
\* position 1, is submitted exactly when i is a multiple of 3, that is
\* payload chunk k exactly when k + 1 is a multiple of 3.
C5_SubmittedByListLength ==
    Submitted = {delivered[i] : i \in {j \in 1..Len(delivered) :
                                           j % EveryNth = 0}}

\* C5 witness: six chunks delivered, the third and the sixth submitted.
C5_Witness ==
    /\ Len(delivered) = 6
    /\ Submitted = {delivered[3], delivered[6]}

\* C6: a live chunk request that fails (non-2xx or network error) leaves the
\* aggregator and the published estimate as they were and does not end the
\* recording: the recorder that was recording still is, its next chunks are
\* still appended and submitted.
C6_LiveFailureAbsorbed ==
    [][(IsLiveSettled /\ settled' = "liveFail")
           => /\ weightedEmotionsRef' = weightedEmotionsRef
              /\ published' = published
              /\ isRecording' = isRecording
              /\ mediaRecorderRef' = mediaRecorderRef
              /\ orphans' = orphans
              /\ chunksRef' = chunksRef
              /\ inflight' \subseteq inflight]_vars

\* C6 witness: a live request failed while recording, after an earlier one
\* had put an estimate on the page.
C6_Witness ==
    /\ settled = "liveFail"
    /\ isRecording
    /\ mediaRecorderRef.state = "recording"
    /\ published.shown
    /\ weightedEmotionsRef # <<>>

\* C7: a final request that fails surfaces an error, publishes nothing (the
\* estimate on the page stays the one that was there, no isFinal = true
\* estimate replaces it) and sends nothing to the ResultSink.
C7_FinalFailureSurfaced ==
    [][(IsFinalSettled /\ settled' = "finalFail")
           => /\ toast' = "Processing error"
              /\ published' = published
              /\ resultSink' = resultSink]_vars

\* C7 witness: the final request failed and the last live estimate is still
\* the published one.
C7_Witness ==
    /\ settled = "finalFail"
    /\ toast = "Processing error"
    /\ published.shown
    /\ ~published.isFinal
    /\ resultSink = <<>>

\* C8: at most one final request is issued in a session, that is between the
\* start of a recording and the start of the next.
C8_OneFinalRequest == Len(finalLog) <= 1

\* C8 witness: the session's final request was answered and the component
\* is idle again with its recorder stopped.
C8_Witness ==
    /\ Len(finalLog) = 1
    /\ finalCall = {}
    /\ ~isRecording
    /\ ~isProcessing
    /\ mediaRecorderRef.state = "inactive"

\* C9: every stop() of a session that is recording issues a final request,
\* also when no chunk has been delivered yet.
C9_StopIssuesFinalRequest ==
    [][IsStop => Len(finalLog') = Len(finalLog) + 1]_vars

\* the lifecycle state that the component's flags show; a recording that
\* starts while a final request is pending is none of the spec's states
Lifecycle ==
    IF isRecording
    THEN IF isProcessing THEN "RecordingWhileReconciling" ELSE "Recording"
    ELSE IF isProcessing THEN "Reconciling" ELSE "Idle"

\* Stopping lasts for the synchronous part of stopRecording, a step takes
\* Recording to Reconciling through it
LifecycleSteps ==
    { <<"Idle", "Recording">>, <<"Recording", "Reconciling">>,
      <<"Reconciling", "Idle">> }

\* C10: the lifecycle only moves Idle -> Recording -> Stopping ->
\* Reconciling -> Idle.
C10_LifecycleOrder ==
    [][Lifecycle' # Lifecycle => <<Lifecycle, Lifecycle'>> \in LifecycleSteps]_vars

\* C11: start() is not invoked while the session is Recording or
\* Reconciling: a click on the button then is a stop() or is ignored, so no
\* step taken in these states begins a start() and acquires an audio source.
C11_NoStartUnlessIdle ==
    [][(isRecording \/ isProcessing) => ~IsStartClick]_vars

\* C11 witness: a recording with chunks, an aggregate and an estimate, in
\* which a click on the button cannot start anything.
C11_Witness ==
    /\ isRecording
    /\ Len(chunksRef) >= 3
    /\ weightedEmotionsRef # <<>>
    /\ published.shown
    /\ steps < MaxSteps
    /\ ~ENABLED (Counted /\ StartClick)

\* the chunk delivered by this step, when the step delivers one
IsDelivery == Len(delivered') = Len(delivered) + 1
LastDelivered == delivered'[Len(delivered')]

\* C12: capture never waits for analysis.  While live calls are outstanding
\* the recorder's next chunk can be delivered; it is appended at delivery
\* and, if selected, one more call is dispatched in the same step, next to
\* the outstanding ones.
C12_CaptureNeverWaits ==
    /\ []((mediaRecorderRef.state = "recording" /\ inflight # {}
              /\ Len(chunksRef) < MaxChunks /\ steps < MaxSteps)
             => ENABLED (Counted /\ DataAvailable(TRUE)))
    /\ [][(inflight # {} /\ IsDelivery)
             => /\ chunksRef' = Append(chunksRef, LastDelivered)
                /\ Len(chunksRef') % EveryNth = 0
                       => /\ inflight \subseteq inflight'
                          /\ \E c \in inflight' \ inflight :
                                 c.blob[2] = LastDelivered]_vars

\* C12 witness: two live calls were dispatched and the second has completed
\* while the first is still outstanding.
C12_Witness ==
    /\ Len(liveLog) = 2
    /\ Cardinality(inflight) = 1
    /\ \E c \in inflight : c.blob = liveLog[1]

\* the entries of an aggregator map, whatever their insertion order
MapEntries(map) == {map[i] : i \in 1..Len(map)}

\* C13: merging the results of two outstanding live calls gives the same
\* score and weight for every emotion in either order of completion.
C13_MergeOrderIrrelevant ==
    \A a, b \in inflight : a # b =>
        \A ra, rb \in LiveResponses :
            MapEntries(MapAfterLive(
                MapAfterLive(weightedEmotionsRef, ra, a.duration),
                rb, b.duration))
            = MapEntries(MapAfterLive(
                MapAfterLive(weightedEmotionsRef, rb, b.duration),
                ra, a.duration))

\* ---------------------------------------------- the aggregator on its own
\* updateWeightedEmotions applied to inputs drawn from small sets: the
\* elapsed seconds its closure holds, the map it finds, the observations and
\* the chunk duration it is called with.
Happiness == [name |-> Joy, totalScore |-> Rat(4, 5), weight |-> Rat(3, 5)]

AggElapsed == {0, 30}
AggMaps == {<<>>, <<Happiness>>}
AggChunkDurations == {3, ChunkDuration}
AggLists ==
    LiveLists \cup
        { <<Obs(Joy, 2, 5)>>,
          <<Obs(Joy, 1, 1)>>,
          <<Obs(Anger, 1, 2), Obs(Joy, 1, 2)>>,
          <<Obs(Joy, 1, 2), Obs(Anger, 1, 2)>> }

AggInit ==
    /\ isRecording = FALSE
    /\ isProcessing = FALSE
    /\ recordingDuration \in AggElapsed
    /\ mediaRecorderRef = Null
    /\ chunksRef = <<>>
    /\ durationIntervalRef = "null"
    /\ webmHeaderRef = 0
    /\ weightedEmotionsRef \in AggMaps
    /\ pending = EmptyBag
    /\ orphans = EmptyBag
    /\ leakedTimers = 0
    /\ strayStream = FALSE
    /\ nextChunk = 0
    /\ steps = 0
    /\ inflight = {}
    /\ finalCall = {}
    /\ published = NoEstimate
    /\ toast = "none"
    /\ resultSink = <<>>
    /\ opusSupported = TRUE
    /\ settled = "none"
    /\ delivered = <<>>
    /\ liveLog = <<>>
    /\ finalLog = <<>>
    /\ observed = {}
    /\ SheetsIdle
    /\ ProsodyIdle

\* the stored numbers are small enough for one more update
Fits(map) ==
    \A i \in 1..Len(map) :
        /\ map[i].totalScore[2] <= MaxDenominator
        /\ map[i].weight[2] <= MaxDenominator

\* updateWeightedEmotions(emotions, chunkDuration)
AggUpdate(emotions, chunkDuration) ==
    LET map == UpdatedMap(weightedEmotionsRef, emotions, chunkDuration,
                          recordingDuration)
        results == WeightedResults(map)
    IN  /\ steps < MaxUpdates
        /\ Fits(weightedEmotionsRef)
        /\ steps' = steps + 1
        /\ weightedEmotionsRef' = map
        /\ published' = IF Len(results) > 0 THEN Estimate(results, FALSE)
                        ELSE published
        /\ observed' = observed \cup
               {[name |-> emotions[k].name, score |-> emotions[k].score,
                 chunkDuration |-> chunkDuration] : k \in 1..Len(emotions)}
        /\ UNCHANGED <<reactVars, recorderVars, timerVars, chunkVars, callVars,
                       toast, resultSink, settled, pending, strayStream,
                       opusSupported, sheetVars, prosodyVars>>

AggNext ==
    \E emotions \in AggLists, chunkDuration \in AggChunkDurations :
        AggUpdate(emotions, chunkDuration)

AggSpec == AggInit /\ [][AggNext]_vars

\* A session of the aggregator: startRecording has emptied the map, the
\* updates of the session follow.
SessionInit == AggInit /\ weightedEmotionsRef = <<>>

SessionSpec == SessionInit /\ [][AggNext]_vars

\* the observations that the updates of the aggregator's behaviours carry
AggObservations == UNION {{l[k] : k \in 1..Len(l)} : l \in AggLists}

\* C14: with 0 elapsed seconds and a chunk duration d > 0, chunkWeight is
\* exactly 1, and an emotion seen for the first time with score s is stored
\* with score s and weight 1 and published with display score s.
C14_ZeroElapsedWeightOne ==
    recordingDuration = 0 =>
        \A d \in 1..ChunkDuration :
            /\ ChunkWeight(d, recordingDuration) = RInt(1)
            /\ \A obs \in AggObservations :
                   IndexOf(weightedEmotionsRef, obs.name, 1) = 0 =>
                       LET map == UpdatedMap(weightedEmotionsRef, <<obs>>, d,
                                             recordingDuration)
                           e == map[IndexOf(map, obs.name, 1)]
                           results == WeightedResults(map)
                       IN  /\ e.totalScore = obs.score
                           /\ e.weight = RInt(1)
                           /\ \E q \in 1..Len(results) :
                                  results[q] = [name |-> obs.name,
                                                score |-> obs.score]

\* C14 witness: at 0 elapsed seconds an update has stored joy, not seen
\* before, with its score 3/4 and weight 1, and published it with 3/4.
C14_Witness ==
    /\ recordingDuration = 0
    /\ steps = 1
    /\ weightedEmotionsRef[1] =
           [name |-> Joy, totalScore |-> Rat(3, 4), weight |-> RInt(1)]
    /\ published.emotions[1] = [name |-> Joy, score |-> Rat(3, 4)]

\* |x - y| <= eps
RNear(x, y, eps) == ~RLess(RAdd(y, eps), x) /\ ~RLess(x, RSub(y, eps))

\* C15: merging score 2/5 with chunkWeight 3/10 into (score 4/5, weight
\* 3/5) gives adjustedWeight (3/5)/(13/10), weight (3/5)/(13/10) + 3/10,
\* score (4/5)*((3/5)/(13/10)) + (2/5)*(3/10) and a display score within
\* 0.001 of 0.6425; every merge into an emotion already stored computes
\* newWeight = w/(1+c) + c and newScore = s*(w/(1+c)) + score*c.
C15_WeightedMerge ==
    /\ LET e == MergeOne(<<Happiness>>, Obs(Joy, 2, 5), Rat(3, 10))[1]
       IN  /\ RDiv(Rat(3, 5), Rat(13, 10)) = Rat(6, 13)
           /\ e.weight = Rat(99, 130)
           /\ e.totalScore = Rat(159, 325)
           /\ RNear(DisplayScore(e), Rat(6425, 10000), Rat(1, 1000))
    /\ Fits(weightedEmotionsRef) =>
           \A i \in 1..Len(weightedEmotionsRef), obs \in AggObservations,
              d \in AggChunkDurations :
               obs.name = weightedEmotionsRef[i].name =>
                   LET old == weightedEmotionsRef[i]
                       c == ChunkWeight(d, recordingDuration)
                       adjusted == RDiv(old.weight, RAdd(RInt(1), c))
                       e == UpdatedMap(weightedEmotionsRef, <<obs>>, d,
                                       recordingDuration)[i]
                   IN  /\ e.weight = RAdd(adjusted, c)
                       /\ e.totalScore = RAdd(RMul(old.totalScore, adjusted),
                                              RMul(obs.score, c))

\* C15 witness: the update of the worked example has been applied (30
\* elapsed seconds, chunk duration 9, so chunkWeight 3/10) and its result
\* is published with a display score within 0.001 of 0.6425.
C15_Witness ==
    /\ recordingDuration = 30
    /\ weightedEmotionsRef =
           <<[name |-> Joy, totalScore |-> Rat(159, 325),
              weight |-> Rat(99, 130)]>>
    /\ published.shown
    /\ RNear(published.emotions[1].score, Rat(6425, 10000), Rat(1, 1000))

\* C16: a published live estimate is sorted by display score, largest
\* first, and emotions with equal display scores are in the order in which
\* their names entered the aggregator map.
C16_LiveEstimateSorted ==
    (published.shown /\ ~published.isFinal) =>
        \A i, j \in 1..Len(published.emotions) :
            i < j =>
                LET a == published.emotions[i]
                    b == published.emotions[j]
                IN  /\ ~RLess(a.score, b.score)
                    /\ a.score = b.score =>
                           IndexOf(weightedEmotionsRef, a.name, 1)
                               < IndexOf(weightedEmotionsRef, b.name, 1)

\* C16 witness: two emotions with equal display scores are published, joy,
\* seen first, before anger.
C16_Witness ==
    /\ published.shown
    /\ Len(published.emotions) = 2
    /\ published.emotions[1].score = published.emotions[2].score
    /\ published.emotions[1].name = Joy
    /\ published.emotions[2].name = Anger

IsStartSettled == BagCardinality(pending') < BagCardinality(pending)
IsStartFailed ==
    IsStartSettled /\ mediaRecorderRef' = mediaRecorderRef /\ orphans' = orphans

\* C18: a start() that cannot obtain the audio source, or finds the
\* encoding unsupported, surfaces an error and changes neither the recording
\* flag nor the chunk list nor the requests; where the encoding is
\* unsupported no session ever records, captures a chunk or issues a request.
C18_FailedStartStaysIdle ==
    /\ [](~opusSupported
             => /\ ~isRecording
                /\ mediaRecorderRef = Null
                /\ nextChunk = 0
                /\ inflight = {} /\ finalCall = {})
    /\ [][IsStartFailed
             => /\ toast' = "Error starting recording"
                /\ isRecording' = isRecording
                /\ isProcessing' = isProcessing
                /\ chunksRef' = chunksRef
                /\ nextChunk' = nextChunk
                /\ inflight' = inflight
                /\ finalCall' = finalCall]_vars

\* C18 witness: a start() has failed, the error is shown, and the component
\* is idle with no recorder, no chunk and no request.
C18_Witness ==
    /\ toast = "Error starting recording"
    /\ pending = EmptyBag
    /\ ~isRecording /\ ~isProcessing
    /\ mediaRecorderRef = Null
    /\ nextChunk = 0
    /\ inflight = {} /\ finalCall = {}

\* the step in which a final request is answered with success
IsFinalSuccess == IsFinalSettled /\ settled' = "finalOk"

\* C19: a successful final analysis hands its list to the result sink, once.
C19_FinalResultToSink ==
    [][IsFinalSuccess => Len(resultSink') = Len(resultSink) + 1]_vars

\* C20: a successful final response publishes its emotions list as it
\* came, with isFinal = true, and leaves the aggregator map alone.
C20_FinalPublishedVerbatim ==
    [][IsFinalSuccess
           => /\ published'.shown
              /\ published'.isFinal
              /\ published'.emotions \in FinalLists
              /\ weightedEmotionsRef' = weightedEmotionsRef]_vars

\* C20 witness: a final estimate is published while the aggregator still
\* holds a live aggregate that differs from it.
C20_Witness ==
    /\ settled = "finalOk"
    /\ published.isFinal
    /\ published.emotions \in FinalLists
    /\ weightedEmotionsRef # <<>>
    /\ WeightedResults(weightedEmotionsRef) # published.emotions

\* C21: the blob of every live request is the header of the session, the
\* first chunk of its list, followed by one chunk of the list that is not
\* the header.
C21_LiveBlobIsHeaderAndChunk ==
    \A i \in 1..Len(liveLog) :
        /\ Len(liveLog[i]) = 2
        /\ liveLog[i][1] = delivered[1]
        /\ liveLog[i][2] # delivered[1]
        /\ \E k \in 2..Len(delivered) : liveLog[i][2] = delivered[k]

\* C22: while the session is recording, after n non-empty chunks (header
\* included) floor(n/3) live requests have been dispatched, the i-th of them
\* for chunk 3i of the list.
C22_OneRequestPerThreeChunks ==
    isRecording =>
        /\ Len(liveLog) = Len(delivered) \div EveryNth
        /\ \A i \in 1..Len(liveLog) : liveLog[i][2] = delivered[EveryNth * i]

\* C22 witness: six chunks delivered in a session that is recording, two
\* requests dispatched.
C22_Witness ==
    /\ isRecording
    /\ Len(delivered) = 6
    /\ Len(liveLog) = 2

\* the step in which the result of a live call is merged
IsLiveMerge == IsLiveSettled /\ settled' \in {"liveOk", "liveOkLate"}

\* C23: a live result is merged with chunk weight 9 / max(e, 9), e being the
\* value of the duration counter when the merge happens.
C23_WeightFromCurrentDuration ==
    [][IsLiveMerge
           => \E l \in LiveLists :
                  weightedEmotionsRef' =
                      UpdatedMap(weightedEmotionsRef, l, ChunkDuration,
                                 recordingDuration)]_vars

\* C24: when a session enters Recording the chunk list is empty, the header
\* is unset, the aggregator map is empty and the duration counter is 0.
C24_FreshSessionOnRecording ==
    [][(~isRecording /\ isRecording')
           => /\ chunksRef' = <<>>
              /\ webmHeaderRef' = 0
              /\ weightedEmotionsRef' = <<>>
              /\ recordingDuration' = 0]_vars

\* C25: a live result that arrives after stop(), while the final request is
\* pending, is merged into the aggregator and published as a live estimate.
C25_LateResultMerged ==
    [][(IsLiveSettled /\ settled' = "liveOkLate" /\ finalCall # {})
           => /\ weightedEmotionsRef' # weightedEmotionsRef
              /\ \E l \in LiveLists :
                     \A k \in 1..Len(l) :
                         IndexOf(weightedEmotionsRef', l[k].name, 1) # 0
              /\ published' =
                     Estimate(WeightedResults(weightedEmotionsRef'), FALSE)]_vars

\* C25 witness: the final request is pending, the recording has stopped, and
\* the live result that arrived last was merged and is the estimate shown.
C25_Witness ==
    /\ settled = "liveOkLate"
    /\ ~isRecording /\ isProcessing
    /\ finalCall # {}
    /\ weightedEmotionsRef # <<>>
    /\ published = Estimate(WeightedResults(weightedEmotionsRef), FALSE)

\* C26: the component is processing only while a final request is pending:
\* when the request is answered, with success or with failure, isProcessing
\* is false again, the component is idle unless a new recording has begun,
\* and the button starts a session again.
C26_ReconcilingEnds ==
    /\ [](isProcessing <=> finalCall # {})
    /\ []((~isRecording /\ ~isProcessing /\ LiveCount < MaxRecorders
              /\ steps < MaxSteps)
             => ENABLED (Counted /\ StartClick))
    /\ [][IsFinalSettled
             => /\ ~isProcessing'
                /\ finalCall' = {}
                /\ ~isRecording => Lifecycle' = "Idle"]_vars

\* C26 witness: the final request has failed, the component is idle and a
\* click on the button starts a session.
C26_Witness ==
    /\ settled = "finalFail"
    /\ Lifecycle = "Idle"
    /\ finalCall = {}
    /\ steps < MaxSteps
    /\ ENABLED (Counted /\ StartClick)

\* C27: a 2xx final response with an emotions list, with or without the
\* timing object, publishes the final estimate and surfaces no error.
C27_SuccessWithoutTiming ==
    [][IsFinalSuccess
           => published'.isFinal /\ toast' # "Processing error"]_vars

Quotient(e) ==
    IF e.weight[1] > 0
    THEN Rat(e.totalScore[1] * e.weight[2], e.totalScore[2] * e.weight[1])
    ELSE RInt(0)

\* C29: every stored weight is >= 0, and the live estimate shows every
\* stored emotion with storedScore / storedWeight, or 0 when the weight is
\* not positive.
C29_WeightsAndDisplayScores ==
    /\ \A i \in 1..Len(weightedEmotionsRef) :
           weightedEmotionsRef[i].weight[1] >= 0
    /\ (published.shown /\ ~published.isFinal) =>
           \A i \in 1..Len(weightedEmotionsRef) :
               \E q \in 1..Len(published.emotions) :
                   published.emotions[q] =
                       [name |-> weightedEmotionsRef[i].name,
                        score |-> Quotient(weightedEmotionsRef[i])]

\* C29 witness: an emotion merged twice, with a weight above 1 and a
\* display score that differs from its stored score, is published.
C29_Witness ==
    /\ published.shown
    /\ \E i \in 1..Len(weightedEmotionsRef) :
           /\ RLess(RInt(1), weightedEmotionsRef[i].weight)
           /\ \E q \in 1..Len(published.emotions) :
                  /\ published.emotions[q].name = weightedEmotionsRef[i].name
                  /\ published.emotions[q].score
                         # weightedEmotionsRef[i].totalScore

Names(list) == {list[k].name : k \in 1..Len(list)}

C31_UpdatesSerialized ==
    /\ [][IsLiveMerge
             => /\ \E l \in LiveLists, d \in 0..MaxDuration :
                       weightedEmotionsRef' =
                           UpdatedMap(weightedEmotionsRef, l, ChunkDuration, d)
                /\ published' =
                       Estimate(WeightedResults(weightedEmotionsRef'), FALSE)]_vars
    /\ [][(~IsLiveMerge /\ ~IsStartClick)
             => weightedEmotionsRef' = weightedEmotionsRef]_vars

\* C31 witness: the two live calls of a session were answered and both
\* results are in the map, anger merged twice (weight 1/(1+1) + 1 = 3/2);
\* the estimate of that map is the one published.
C31_Witness ==
    /\ Len(liveLog) = 2
    /\ inflight = {}
    /\ settled = "liveOk"
    /\ Len(weightedEmotionsRef) = 2
    /\ \E i \in 1..2 : /\ weightedEmotionsRef[i].name = Anger
                        /\ weightedEmotionsRef[i].weight = Rat(3, 2)
    /\ published = Estimate(WeightedResults(weightedEmotionsRef), FALSE)

\* a score that lies in [0, 1]
InUnitInterval(x) == ~RLess(x, RInt(0)) /\ ~RLess(RInt(1), x)

\* C32: when every observation merged in a session has a score in [0, 1]
\* and was merged with chunk duration 9, whatever the elapsed seconds,
\* every display score of the published live estimate lies in [0, 1].
C32_DisplayScoresInUnitInterval ==
    (/\ published.shown /\ ~published.isFinal
     /\ \A o \in observed :
            InUnitInterval(o.score) /\ o.chunkDuration = ChunkDuration)
        => \A q \in 1..Len(published.emotions) :
               InUnitInterval(published.emotions[q].score)

\* the scores with which the emotion called name was observed in the session
ObservedScores(name) == {o.score : o \in {p \in observed : p.name = name}}

\* C33: an emotion whose observations in the session all have the same
\* score s is published with display score s, after any number of updates.
C33_ConstantScoreKept ==
    (published.shown /\ ~published.isFinal)
        => \A q \in 1..Len(published.emotions) :
               LET e == published.emotions[q] IN
               Cardinality(ObservedScores(e.name)) = 1
                   => e.score \in ObservedScores(e.name)

\* the blobs of the live requests of the session that is recording
SessionBlobs == {liveLog[i] : i \in 1..Len(liveLog)}

\* C34: a live call of an earlier session that completes while a later
\* session is recording changes neither the aggregator map nor the
\* published estimate of the later session.
C34_StaleResultIgnored ==
    [][\A call \in inflight \ inflight' :
           (isRecording /\ call.blob \notin SessionBlobs)
               => /\ weightedEmotionsRef' = weightedEmotionsRef
                  /\ published' = published]_vars

\* the recorders that are capturing: started and not stopped
Capturing ==
    (IF mediaRecorderRef.state = "recording" THEN 1 ELSE 0)
        + BagCardinality([rec \in {r \in BagToSet(orphans) :
                                     r.state = "recording"}
                             |-> CopiesIn(rec, orphans)])

\* the duration timers that are running
RunningTimers ==
    (IF durationIntervalRef = "running" THEN 1 ELSE 0) + leakedTimers

\* C35: at any time at most one recorder is capturing and at most one
\* duration timer is running, also when start() was invoked again while an
\* earlier start() was waiting for the audio source.
C35_OneRecorderOneTimer == Capturing <= 1 /\ RunningTimers <= 1

\* C36: when the component is idle and no start() is in progress, no audio
\* stream that a start() acquired is open: none left behind by a start()
\* that failed after getUserMedia resolved, none held by a recorder that
\* is still capturing.
C36_StreamsReleased ==
    (Lifecycle = "Idle" /\ pending = EmptyBag)
        => ~strayStream /\ Capturing = 0

\* C37: a 2xx live response whose emotions list is missing or empty leaves
\* the aggregator map and the published estimate as they were: nothing is
\* published for it.
C37_EmptyLiveResultIgnored ==
    [][(IsLiveSettled /\ settled' = "liveEmpty")
           => /\ weightedEmotionsRef' = weightedEmotionsRef
              /\ published' = published]_vars

\* C37 witness: a live response without emotions arrived while recording,
\* the estimate of an earlier live result is still the one published.
C37_Witness ==
    /\ settled = "liveEmpty"
    /\ isRecording
    /\ weightedEmotionsRef # <<>>
    /\ published = Estimate(WeightedResults(weightedEmotionsRef), FALSE)

\* ----------------------------------------------------------------- SheetsDB
\* SheetsDB.storeEmotionData on a spreadsheet.  A call is a sequence of
\* steps, one per await: connect, read column A, read row 1, append; every
\* request either succeeds or throws into the catch of the method.
\* Cell values are strings, transcript ids and scores (rationals).

\* new Date().toISOString().split('T')[0]
Today == "2024-02-14"

\* the value of a property that an object does not have; like 0 it is falsy
Undefined == <<0, 0>>

\* String(n): the decimal digits of n
RECURSIVE Digits(_)
Digits(n) == IF n < 10 THEN <<n>> ELSE Digits(n \div 10) \o <<n % 10>>

\* padStart(len, '0')
RECURSIVE PadStart(_, _)
PadStart(digits, len) ==
    IF Len(digits) >= len THEN digits ELSE PadStart(<<0>> \o digits, len)

\* `T${String(count).padStart(3, '0')}`
TranscriptId(count) == <<"T">> \o PadStart(Digits(count), 3)

\* emotionDict[key] after emotions.forEach(e => emotionDict[e.name] = e.score)
EmotionDict(emotions, key) ==
    LET hits == {i \in 1..Len(emotions) : emotions[i].name = key} IN
    IF hits = {} THEN Undefined
    ELSE emotions[CHOOSE i \in hits : \A j \in hits : j <= i].score

\* value || 0.0
OrZero(value) == IF value[1] = 0 THEN RInt(0) ELSE value

\* headers.slice(4)
Slice4(headers) == SubSeq(headers, 5, Len(headers))

\* variant: the scores of the emotions in list order follow the fixed columns
RowDataOfEmotions(transcriptId, text, context, emotions, headers) ==
    <<Today, transcriptId, text, context>>
        \o [k \in 1..Len(emotions) |-> emotions[k].score]

\* rowData: the four fixed columns, then one value per header from the fifth
RowData(transcriptId, text, context, emotions, headers) ==
    <<Today, transcriptId, text, context>>
        \o [k \in 1..Len(Slice4(headers)) |->
               OrZero(EmotionDict(emotions, Slice4(headers)[k]))]

\* the header rows of the spreadsheets
FixedColumns == <<"timestamp", "id", "text", "context">>
Sadness == "sadness"
SheetHeaders ==
    { <<"timestamp", "id">>,
      FixedColumns,
      FixedColumns \o <<Joy, Anger>>,
      FixedColumns \o <<Anger, Sadness, Joy>> }

\* the emotion lists that storeEmotionData is called with
StoreLists ==
    LiveLists \cup { <<>>, <<Obs(Joy, 0, 1), Obs(Sadness, 1, 4)>> }

StoreContexts == {"prosody_hume", ""}

SheetsInit ==
    /\ ComponentInit
    /\ opusSupported = TRUE
    /\ observed = {}
    /\ ProsodyIdle
    /\ sheets = "null"
    /\ sheetValues \in {<<>>} \cup {<<h>> : h \in SheetHeaders}
    /\ storeCall = [pc |-> "idle"]
    /\ storeReturned = <<>>

\* what the steps of SheetsDB leave alone
notSheetVars == <<componentVars, observed, prosodyVars>>

\* variant: the catch lets the error go on to the caller
Rethrown == "threw"

\* the catch of storeEmotionData, and the failed connect: return false
ReturnedFalse == "false"

\* return true, after the append
ReturnedTrue == "true"

\* the call ends and hands value to its caller
StoreReturn(value) ==
    /\ storeReturned' = Append(storeReturned, value)
    /\ storeCall' = [pc |-> "idle"]

\* storeEmotionData(text, emotions, context) up to its first request;
\* connected tells whether connect(), when it is called, succeeds
StoreEmotionData(text, emotions, context, connected) ==
    /\ storeCall.pc = "idle"
    /\ Len(storeReturned) < MaxStores
    /\ IF sheets = "null" /\ ~connected
       THEN /\ StoreReturn(ReturnedFalse)
            /\ UNCHANGED sheets
       ELSE /\ sheets' = "client"
            /\ storeCall' = [pc |-> "columnA", text |-> text,
                             emotions |-> emotions, context |-> context,
                             transcriptId |-> <<>>, rowData |-> <<>>]
            /\ UNCHANGED storeReturned
    /\ UNCHANGED <<sheetValues, notSheetVars>>

\* values.get(range 'A:A') settles
ColumnAResponse(ok) ==
    /\ storeCall.pc = "columnA"
    /\ IF ok
       THEN /\ storeCall' = [storeCall EXCEPT
                                !.pc = "headers",
                                !.transcriptId = TranscriptId(Len(sheetValues))]
            /\ UNCHANGED storeReturned
       ELSE StoreReturn(ReturnedFalse)
    /\ UNCHANGED <<sheets, sheetValues, notSheetVars>>

\* headerResponse.data.values?.[0] || []
Headers(values) == IF values = <<>> THEN <<>> ELSE values[1]

\* values.get(range '1:1') settles; the row is built up to the append request
HeaderResponse(ok) ==
    /\ storeCall.pc = "headers"
    /\ IF ok
       THEN /\ storeCall' = [storeCall EXCEPT
                                !.pc = "append",
                                !.rowData = RowData(storeCall.transcriptId,
                                                    storeCall.text,
                                                    storeCall.context,
                                                    storeCall.emotions,
                                                    Headers(sheetValues))]
            /\ UNCHANGED storeReturned
       ELSE StoreReturn(ReturnedFalse)
    /\ UNCHANGED <<sheets, sheetValues, notSheetVars>>

\* values.append settles
AppendResponse(ok) ==
    /\ storeCall.pc = "append"
    /\ IF ok
       THEN /\ sheetValues' = Append(sheetValues, storeCall.rowData)
            /\ StoreReturn(ReturnedTrue)
       ELSE /\ StoreReturn(ReturnedFalse)
            /\ UNCHANGED sheetValues
    /\ UNCHANGED <<sheets, notSheetVars>>

SheetsNext ==
    \/ \E emotions \in StoreLists, context \in StoreContexts,
          connected \in BOOLEAN :
           StoreEmotionData("hello", emotions, context, connected)
    \/ \E ok \in BOOLEAN : ColumnAResponse(ok)
    \/ \E ok \in BOOLEAN : HeaderResponse(ok)
    \/ \E ok \in BOOLEAN : AppendResponse(ok)

SheetsSpec == SheetsInit /\ [][SheetsNext]_vars

\* the list has an emotion called name
HasEmotion(emotions, name) == \E i \in 1..Len(emotions) : emotions[i].name = name

IsStoreReturn == Len(storeReturned') = Len(storeReturned) + 1
LastReturned == storeReturned'[Len(storeReturned')]

\* C39: storeEmotionData reports failure as a value.  Every call returns
\* true or false and none throws; a call that returns false, because the
\* connect, a read or the append failed, has appended no row; a call
\* returns true only in the step in which its append succeeded, and every
\* row comes from such a step.
C39_FailureIsAValue ==
    /\ [](\A i \in 1..Len(storeReturned) :
              storeReturned[i] \in {"true", "false"})
    /\ [][IsStoreReturn
             => /\ LastReturned = "false" => sheetValues' = sheetValues
                /\ LastReturned = "true"
                       => /\ storeCall.pc = "append"
                          /\ Len(sheetValues') = Len(sheetValues) + 1]_vars
    /\ [][sheetValues' # sheetValues
             => IsStoreReturn /\ LastReturned = "true"]_vars

\* C39 witness: a call failed after the connection was made and returned
\* false, the sheet still holding its header row alone; the next call
\* appended its row and returned true.
C39_Witness ==
    /\ storeReturned = <<"false", "true">>
    /\ sheets = "client"
    /\ Len(sheetValues) = 2
    /\ Len(sheetValues[1]) = 6
    /\ sheetValues[2][2] = TranscriptId(1)

\* ----------------------------------------------------------- analyze_prosody
\* analyze_prosody(audioFile): one step per await, the POST of the job, the
\* status requests, the pause between two of them, the request of the
\* predictions.  Every request completes, with a 2xx answer or without.

\* the statuses that the batch API reports for a job
JobStatuses == {"QUEUED", "IN_PROGRESS", "COMPLETED", "FAILED"}

\* the bodies of 2xx answers to the predictions request
Predictions == {"predictions: joy", "predictions: anger"}

ProsodyInit ==
    /\ ComponentInit
    /\ opusSupported = TRUE
    /\ observed = {}
    /\ SheetsIdle
    /\ apiKey \in BOOLEAN
    /\ prosodyCall = [pc |-> "idle"]
    /\ prosodyReturned = "none"

\* what the steps of analyze_prosody leave alone
notProsodyVars == <<componentVars, observed, sheetVars>>

\* the catch of analyze_prosody: return null
ProsodyCaught ==
    /\ prosodyReturned' = "null"
    /\ prosodyCall' = [pc |-> "done"]

\* analyze_prosody up to its first request; without the API key it throws
\* into its catch
AnalyzeProsody ==
    /\ prosodyCall.pc = "idle"
    /\ IF apiKey
       THEN /\ prosodyCall' = [pc |-> "submit", job_id |-> 0, polls |-> 0,
                               status |-> "none"]
            /\ UNCHANGED prosodyReturned
       ELSE ProsodyCaught
    /\ UNCHANGED <<apiKey, notProsodyVars>>

\* the POST of the job settles
JobResponse(ok, id) ==
    /\ prosodyCall.pc = "submit"
    /\ IF ok
       THEN /\ prosodyCall' = [prosodyCall EXCEPT !.pc = "status",
                                                   !.job_id = id]
            /\ UNCHANGED prosodyReturned
       ELSE ProsodyCaught
    /\ UNCHANGED <<apiKey, notProsodyVars>>

\* one more status request answered, counted up to MaxPolls
Polled(polls) == IF polls < MaxPolls THEN polls + 1 ELSE polls

\* a status request settles: not OK and FAILED throw, COMPLETED goes on to
\* the predictions, any other status to the pause before the next request
StatusResponse(ok, status) ==
    /\ prosodyCall.pc = "status"
    /\ IF ~ok \/ status = "FAILED"
       THEN ProsodyCaught
       ELSE /\ prosodyCall' =
                   [prosodyCall EXCEPT
                       !.pc = IF status = "COMPLETED" THEN "results" ELSE "sleep",
                       !.polls = Polled(prosodyCall.polls),
                       !.status = status]
            /\ UNCHANGED prosodyReturned
    /\ UNCHANGED <<apiKey, notProsodyVars>>

\* the setTimeout of the pause fires: the loop goes round
PollAgain ==
    /\ prosodyCall.pc = "sleep"
    /\ prosodyCall' = [prosodyCall EXCEPT !.pc = "status"]
    /\ UNCHANGED <<apiKey, prosodyReturned, notProsodyVars>>

\* the predictions request settles
ResultsResponse(ok, results) ==
    /\ prosodyCall.pc = "results"
    /\ IF ok
       THEN /\ prosodyReturned' = results
            /\ prosodyCall' = [pc |-> "done"]
       ELSE ProsodyCaught
    /\ UNCHANGED <<apiKey, notProsodyVars>>

ProsodyNext ==
    \/ AnalyzeProsody
    \/ \E ok \in BOOLEAN, id \in 1..MaxJobs : JobResponse(ok, id)
    \/ \E ok \in BOOLEAN, status \in JobStatuses : StatusResponse(ok, status)
    \/ PollAgain
    \/ \E ok \in BOOLEAN, results \in Predictions : ResultsResponse(ok, results)

\* every request completes and every timer fires: no step that is possible
\* is put off for ever
ProsodySpec == ProsodyInit /\ [][ProsodyNext]_vars /\ WF_vars(ProsodyNext)

\* C40: analyze_prosody eventually returns when every request it makes
\* completes; it returns predictions only in the step that answers the
\* predictions request, made after the job was reported COMPLETED, and
\* null otherwise; it does not poll for ever.
C40_ProsodyReturns ==
    /\ [][prosodyReturned' # prosodyReturned
             => /\ prosodyReturned = "none"
                /\ prosodyReturned' \in Predictions
                       => /\ prosodyCall.pc = "results"
                          /\ prosodyCall.status = "COMPLETED"]_vars
    /\ <>(prosodyReturned # "none")

====
